---- MODULE Spec2Model ----
(***************************************************************************)
(* A model of scripts/generate-og-image.py: the Open Graph thumbnail       *)
(* generator.  generate() is a straight-line program that allocates        *)
(* transparent layers, draws into them, composites them onto an            *)
(* accumulator, flattens the accumulator and writes one PNG file.          *)
(*                                                                         *)
(* The module holds one specification per part of the script:              *)
(*   Spec          generate() statement by statement (layers, composites,  *)
(*                 fonts, exceptions, the output file)                     *)
(*   SpecLerp      lerp_color                                              *)
(*   SpecGlow      draw_gradient_circle, one loop iteration per step       *)
(*   SpecParticles the particle loop and the pseudo-random generator       *)
(*   SpecBorder    the border loop, one pixel column per step              *)
(*   SpecPills     the pill measuring and layout loops                     *)
(* Every specification leaves the variables of the others parked.          *)
(***************************************************************************)
EXTENDS Integers, Sequences, FiniteSets, TLC

VARIABLES
    \* generate(): the statement-level run
    pc, img, layers, fonts, final, error, printed, seeded,
    \* the host: font files, the output directory and file, the open file
    fs, dirExists, file, fp, created, saved,
    \* history of the runs (not program state)
    runs, fileAtStart, touched,
    \* lerp_color
    lerpArgs, lerpCalls,
    \* draw_gradient_circle
    glowArgs, glowPc, glowI, glowEllipses, glowError,
    \* the particle loop
    rng, partPc, partI, partDots, partPrev, partRuns,
    \* the border loop
    borderPc, borderX, borderCol,
    \* the pill loops
    pillPc, pillI, pillBox, pills, total_w, start_x, pill_cx, pillRects

mainVars == <<pc, img, layers, fonts, final, error, printed, seeded,
              fs, dirExists, file, fp, created, saved,
              runs, fileAtStart, touched>>
lerpVars == <<lerpArgs, lerpCalls>>
glowVars == <<glowArgs, glowPc, glowI, glowEllipses, glowError>>
partVars == <<rng, partPc, partI, partDots, partPrev, partRuns>>
borderVars == <<borderPc, borderX, borderCol>>
pillVars == <<pillPc, pillI, pillBox, pills, total_w, start_x, pill_cx, pillRects>>
vars == <<mainVars, lerpVars, glowVars, partVars, borderVars, pillVars>>

\* What each specification leaves alone.
restOfMain == <<lerpVars, glowVars, partVars, borderVars, pillVars>>
restOfLerp == <<mainVars, glowVars, partVars, borderVars, pillVars>>
restOfGlow == <<mainVars, lerpVars, partVars, borderVars, pillVars>>
restOfParticles == <<mainVars, lerpVars, glowVars, borderVars, pillVars>>
restOfBorder == <<mainVars, lerpVars, glowVars, partVars, pillVars>>
restOfPills == <<mainVars, lerpVars, glowVars, partVars, borderVars>>

----------------------------------------------------------------------------
(* Module-level constants of the script.                                   *)

W == 1200
H == 630

BG == <<3, 0, 20>>
PURPLE == <<139, 92, 246>>
CYAN == <<6, 182, 212>>
WHITE == <<240, 240, 245>>
MUTED == <<160, 160, 176>>

\* Bounds of the model.
TDen == 12          \* lerp_color is called with t = n / TDen, n in 0..TDen
MaxRadius == 9      \* draw_gradient_circle with r in 0..MaxRadius (and the script's radii)
MaxRuns == 3        \* runs of the script in a row
MaxRngInit == 3     \* states the generator may be in before a run
MaxWidthK == 2      \* measured text widths: 0, 77, ..., 77 * MaxWidthK

None == "none"

Min2(a, b) == IF a <= b THEN a ELSE b
Max2(a, b) == IF a <= b THEN b ELSE a

----------------------------------------------------------------------------
(* int() of a float that is the quotient num / den of two naturals.  The   *)
(* script computes with IEEE doubles: when the exact value is not an       *)
(* integer it is further than any rounding error from one, and int()       *)
(* truncates it to floor(num / den).  When the exact value is an integer k *)
(* the double may be k or sit just below it, so int() gives k or k - 1     *)
(* (49 * (1/49) is 0.9999999999999999): `ulp' is that choice.              *)
IntOfFloat(num, den, ulp) == (num \div den) - ulp

\* The values `ulp' may take: 1 only when the exact value is an integer and
\* the float computation is not exact.
Ulps(num, den, exact) == IF num % den = 0 /\ ~exact THEN {0, 1} ELSE {0}

----------------------------------------------------------------------------
(* lerp_color(c1, c2, t), t = n / d.                                       *)

\* One channel: int(a + (b - a) * t).  Exact at t = 0, at t = 1 and for a = b.
LerpExact(a, b, n, d) == n = 0 \/ n = d \/ a = b

LerpChannelNegated(a, b, n, d, ulp) == IntOfFloat(a * d + (a - b) * n, d, ulp)

LerpChannel(a, b, n, d, ulp) == IntOfFloat(a * d + (b - a) * n, d, ulp)

lerp_color(c1, c2, n, d, ulp) ==
    [k \in 1..3 |-> LerpChannel(c1[k], c2[k], n, d, ulp[k])]

LerpUlps(c1, c2, n, d) ==
    {u \in [1..3 -> {0, 1}] :
        \A k \in 1..3 :
            u[k] \in Ulps(c1[k] * d + (c2[k] - c1[k]) * n, d,
                          LerpExact(c1[k], c2[k], n, d))}

Colors == {BG, PURPLE, CYAN, WHITE, MUTED, <<0, 0, 0>>, <<255, 255, 255>>}

LerpParked == lerpArgs = [c1 |-> BG, c2 |-> BG] /\ lerpCalls = <<>>

InitLerp ==
    /\ \E c1 \in Colors, c2 \in Colors : lerpArgs = [c1 |-> c1, c2 |-> c2]
    /\ lerpCalls = <<>>

\* A call lerp_color(c1, c2, n / TDen); the last two calls are remembered.
LerpCall ==
    /\ \E n \in 0..TDen :
         \E u \in LerpUlps(lerpArgs.c1, lerpArgs.c2, n, TDen) :
            LET call == [n |-> n,
                         out |-> lerp_color(lerpArgs.c1, lerpArgs.c2, n, TDen, u)]
            IN lerpCalls' = IF Len(lerpCalls) < 2
                            THEN Append(lerpCalls, call)
                            ELSE <<lerpCalls[2], call>>
    /\ UNCHANGED lerpArgs
    /\ UNCHANGED restOfLerp

----------------------------------------------------------------------------
(* draw_gradient_circle(draw, cx, cy, r, color, alpha_max).                *)

\* a = int(alpha_max * (1 - i / r) ** 2), for 0 < i <= r: exact when i = r
\* (t is 1.0) and when alpha_max is 0.
GlowAlpha(alpha_max, i, r, ulp) ==
    IntOfFloat(alpha_max * (r - i) * (r - i), r * r, ulp)

GlowUlps(alpha_max, i, r) ==
    Ulps(alpha_max * (r - i) * (r - i), r * r, i = r \/ alpha_max = 0)

\* range(r, 0, -2): the loop runs while the index is above the stop value 0.
RangeStopInclusive(i) == i >= 0

RangeContinues(i) == i > 0

\* The three calls of generate(), and calls over the small radii.
GlowCalls ==
    {[cx |-> 200, cy |-> 150, r |-> 350, color |-> PURPLE, alpha_max |-> 70],
     [cx |-> 1000, cy |-> 480, r |-> 300, color |-> CYAN, alpha_max |-> 55],
     [cx |-> 600, cy |-> 320, r |-> 250, color |-> PURPLE, alpha_max |-> 35]}
    \cup {[cx |-> 600, cy |-> 320, r |-> r, color |-> PURPLE, alpha_max |-> a] :
            r \in 0..MaxRadius, a \in {0, 35, 55, 70, 90, 255}}

GlowParked ==
    /\ glowArgs = [cx |-> 0, cy |-> 0, r |-> 0, color |-> BG, alpha_max |-> 0]
    /\ glowPc = "off" /\ glowI = 0
    /\ glowEllipses = <<>> /\ glowError = None

InitGlow ==
    /\ glowArgs \in GlowCalls
    /\ glowPc = "loop"
    /\ glowI = glowArgs.r
    /\ glowEllipses = <<>>
    /\ glowError = None

\* One iteration of the loop body: t = i / r raises ZeroDivisionError when r is 0.
GlowStep ==
    /\ glowPc = "loop"
    /\ RangeContinues(glowI)
    /\ IF glowArgs.r = 0
       THEN /\ glowError' = "ZeroDivisionError"
            /\ glowPc' = "raised"
            /\ UNCHANGED <<glowI, glowEllipses>>
       ELSE /\ \E u \in GlowUlps(glowArgs.alpha_max, glowI, glowArgs.r) :
                 glowEllipses' = Append(glowEllipses,
                     [box |-> <<glowArgs.cx - glowI, glowArgs.cy - glowI,
                                glowArgs.cx + glowI, glowArgs.cy + glowI>>,
                      radius |-> glowI,
                      fill |-> <<glowArgs.color[1], glowArgs.color[2], glowArgs.color[3],
                                 GlowAlpha(glowArgs.alpha_max, glowI, glowArgs.r, u)>>])
            /\ glowI' = glowI - 2
            /\ UNCHANGED <<glowPc, glowError>>
    /\ UNCHANGED glowArgs
    /\ UNCHANGED restOfGlow

\* The range is exhausted: the function returns.
GlowReturn ==
    /\ glowPc = "loop"
    /\ ~RangeContinues(glowI)
    /\ glowPc' = "done"
    /\ UNCHANGED <<glowArgs, glowI, glowEllipses, glowError>>
    /\ UNCHANGED restOfGlow

----------------------------------------------------------------------------
(* The particle loop of generate(): random.seed(42), then 40 particles of  *)
(* five draws each.  The generator of the random module is modelled as a   *)
(* 16-bit linear congruential generator: what matters is that every draw   *)
(* is a function of the generator's state and advances it.                 *)

ParticleCount == 40
RandomSeed == 42

RngNext(s) == (25173 * s + 13849) % 65536

\* random.seed(a): the state after seeding depends on a alone.
random_seed_ignored(s, a) == s

random_seed(s, a) == RngNext(a)

\* random.randint(a, b) and random.random() > 0.5 read the state after one advance.
randint(s, a, b) == a + ((RngNext(s) \div 16) % (b - a + 1))
random_above_half(s) == RngNext(s) > 32768

\* The states the generator may be in when a run starts.
RngInitStates == {(k * 7919) % 65536 : k \in 0..MaxRngInit}

PartParked ==
    /\ rng = 0 /\ partPc = "off" /\ partI = 0
    /\ partDots = <<>> /\ partPrev = <<>> /\ partRuns = 0

InitParticles ==
    /\ rng \in RngInitStates
    /\ partPc = "seed"
    /\ partI = 0
    /\ partDots = <<>>
    /\ partPrev = <<>>
    /\ partRuns = 1

PartSeed ==
    /\ partPc = "seed"
    /\ rng' = random_seed(rng, RandomSeed)
    /\ partPc' = "loop"
    /\ UNCHANGED <<partI, partDots, partPrev, partRuns>>
    /\ UNCHANGED restOfParticles

\* One iteration: px, py, size, alpha, color, then the ellipse.
PartDraw ==
    /\ partPc = "loop"
    /\ partI < ParticleCount
    /\ LET s1 == RngNext(rng)
           s2 == RngNext(s1)
           s3 == RngNext(s2)
           s4 == RngNext(s3)
           s5 == RngNext(s4)
           px == randint(rng, 0, W)
           py == randint(s1, 0, H)
           size == randint(s2, 1, 3)
           alpha == randint(s3, 30, 90)
           color == IF random_above_half(s4) THEN PURPLE ELSE CYAN
       IN /\ partDots' = Append(partDots,
                 [box |-> <<px - size, py - size, px + size, py + size>>,
                  fill |-> <<color[1], color[2], color[3], alpha>>])
          /\ rng' = s5
    /\ partI' = partI + 1
    /\ UNCHANGED <<partPc, partPrev, partRuns>>
    /\ UNCHANGED restOfParticles

PartReturn ==
    /\ partPc = "loop"
    /\ partI = ParticleCount
    /\ partPc' = "done"
    /\ UNCHANGED <<rng, partI, partDots, partPrev, partRuns>>
    /\ UNCHANGED restOfParticles

\* Another run: in the same process (the generator keeps its state) or in a
\* fresh one (any state); the particles of the run before are remembered.
PartRestart ==
    /\ partPc = "done"
    /\ partRuns < MaxRuns
    /\ rng' \in RngInitStates \cup {rng}
    /\ partPrev' = partDots
    /\ partDots' = <<>>
    /\ partI' = 0
    /\ partPc' = "seed"
    /\ partRuns' = partRuns + 1
    /\ UNCHANGED restOfParticles

----------------------------------------------------------------------------
(* The border loop of generate(): for x in range(W), a strip of the        *)
(* interpolated colour at the top and at the bottom of the column.         *)

\* ImageDraw.line([(x, y0), (x, y1)]) paints both end points and every pixel
\* between them, and silently drops the pixels outside the image.
LineRows(y0, y1) == {y \in y0..y1 : 0 <= y /\ y < H}

\* The column painted last: its colour, the rows each line call asked for and
\* the rows of the canvas it painted.
NoColumn ==
    [x |-> 0 - 1, topFill |-> <<0, 0, 0, 0>>, bottomFill |-> <<0, 0, 0, 0>>,
     top |-> {}, bottom |-> {}, topAsked |-> {}, bottomAsked |-> {}]

BorderParked ==
    /\ borderPc = "off" /\ borderX = 0
    /\ borderCol = NoColumn

InitBorder ==
    /\ borderPc = "loop"
    /\ borderX = 0
    /\ borderCol = NoColumn

BorderStep ==
    /\ borderPc = "loop"
    /\ borderX < W
    /\ \E u \in LerpUlps(PURPLE, CYAN, borderX, W) :
         LET c == lerp_color(PURPLE, CYAN, borderX, W, u)
         IN borderCol' =
                      [x |-> borderX,
                       topFill |-> <<c[1], c[2], c[3], 200>>,
                       bottomFill |-> <<c[1], c[2], c[3], 200>>,
                       top |-> LineRows(0, 3),
                       bottom |-> LineRows(H - 3, H),
                       topAsked |-> 0..3,
                       bottomAsked |-> (H - 3)..H]
    /\ borderX' = borderX + 1
    /\ UNCHANGED borderPc
    /\ UNCHANGED restOfBorder

BorderReturn ==
    /\ borderPc = "loop"
    /\ borderX = W
    /\ borderPc' = "done"
    /\ UNCHANGED <<borderX, borderCol>>
    /\ UNCHANGED restOfBorder

----------------------------------------------------------------------------
(* The pill loops of generate(): measure every tag, centre the row, then   *)
(* draw the pills left to right.                                           *)

tags == <<"Python", "SQL", "AWS", "React", "Data Pipelines", "ML">>
name_y == 200
sub_y == name_y + 90
line_y == sub_y + 50
pill_y == line_y + 30
pill_gap == 16
pill_pad_x == 20
pill_pad_y == 8

\* t_draw.textbbox((0, 0), tag, font): the width depends on the font that was
\* found, so it is any of TextWidths; the height is that of the glyphs.
TextWidths == {77 * k : k \in 0..MaxWidthK}
TextHeight(tag) == IF tag \in {"Python", "Data Pipelines"} THEN 18 ELSE 14

\* total_w -= pill_gap, after the loop that added a gap after every pill.
TrimKept(acc) == acc

TrimLastGap(acc) == acc - pill_gap

PillParked ==
    /\ pillPc = "off" /\ pillI = 0 /\ pillBox = <<>> /\ pills = <<>>
    /\ total_w = 0 /\ start_x = 0 /\ pill_cx = 0 /\ pillRects = <<>>

InitPills ==
    /\ pillPc = "measure"
    /\ pillI = 1
    /\ pillBox = <<>>
    /\ pills = <<>>
    /\ total_w = 0
    /\ start_x = 0
    /\ pill_cx = 0
    /\ pillRects = <<>>

\* for tag in tags: one iteration.
PillMeasure ==
    /\ pillPc = "measure"
    /\ pillI <= Len(tags)
    /\ \E w \in TextWidths :
         LET tag == tags[pillI]
             bb == <<0, 0, w, TextHeight(tag)>>
             tw == bb[3] - bb[1]
             th == bb[4] - bb[2]
             pw == tw + pill_pad_x * 2
             ph == th + pill_pad_y * 2
         IN /\ pillBox' = Append(pillBox, bb)
            /\ pills' = Append(pills, [tag |-> tag, pw |-> pw, ph |-> ph,
                                       tw |-> tw, th |-> th])
            /\ total_w' = total_w + pw + pill_gap
    /\ pillI' = pillI + 1
    /\ UNCHANGED <<pillPc, start_x, pill_cx, pillRects>>
    /\ UNCHANGED restOfPills

\* total_w -= pill_gap; start_x = (W - total_w) // 2; cx = start_x
PillCentre ==
    /\ pillPc = "measure"
    /\ pillI > Len(tags)
    /\ total_w' = TrimLastGap(total_w)
    /\ start_x' = (W - total_w') \div 2
    /\ pill_cx' = start_x'
    /\ pillI' = 1
    /\ pillPc' = "draw"
    /\ UNCHANGED <<pillBox, pills, pillRects>>
    /\ UNCHANGED restOfPills

\* for tag, pw, ph, tw, th in pills: one iteration.
PillDraw ==
    /\ pillPc = "draw"
    /\ pillI <= Len(pills)
    /\ LET p == pills[pillI]
       IN pillRects' = Append(pillRects,
              [tag |-> p.tag,
               box |-> <<pill_cx, pill_y, pill_cx + p.pw, pill_y + p.ph>>,
               radius |-> p.ph \div 2,
               text |-> <<pill_cx + (p.pw - p.tw) \div 2,
                          pill_y + (p.ph - p.th) \div 2 - 2>>])
    /\ pill_cx' = pill_cx + pills[pillI].pw + pill_gap
    /\ pillI' = pillI + 1
    /\ UNCHANGED <<pillPc, pillBox, pills, total_w, start_x>>
    /\ UNCHANGED restOfPills

PillReturn ==
    /\ pillPc = "draw"
    /\ pillI > Len(pills)
    /\ pillPc' = "done"
    /\ UNCHANGED <<pillI, pillBox, pills, total_w, start_x, pill_cx, pillRects>>
    /\ UNCHANGED restOfPills

----------------------------------------------------------------------------
(* generate(), statement by statement.  A loop that fills one layer is one *)
(* drawing statement here; SpecGlow, SpecParticles, SpecBorder and         *)
(* SpecPills run those loops iteration by iteration.                       *)

LayerNames == {"overlay", "grid", "particles", "border", "text_layer", "mono_layer", "glow"}
FontVars == {"font_name", "font_title", "font_tag", "font_arg"}

\* An image: the accumulator keeps the stack of what was composited onto it,
\* a layer keeps what was drawn into it.  blurAt is the number of drawings the
\* layer held when it was blurred, late the number of drawings and blurs it
\* received after it had been composited.
NoImage ==
    [alloc |-> FALSE, size |-> <<0, 0>>, mode |-> "", fill |-> <<0, 0, 0, 0>>,
     drawn |-> <<>>, blur |-> 0, blurAt |-> 0, composited |-> 0, late |-> 0,
     stack |-> <<>>]

\* Image.new(mode, size, color)
Image_new(mode, size, color) ==
    [NoImage EXCEPT !.alloc = TRUE, !.size = size, !.mode = mode, !.fill = color]

\* image.filter(ImageFilter.GaussianBlur(radius)): a new image of the same
\* size and mode, holding the blurred content.
GaussianBlurPadded(im, radius) ==
    [im EXCEPT !.size = <<im.size[1] + 2 * radius, im.size[2] + 2 * radius>>,
               !.blur = radius, !.blurAt = Len(im.drawn),
               !.late = @ + (IF im.composited > 0 THEN 1 ELSE 0)]

GaussianBlur(im, radius) ==
    [im EXCEPT !.blur = radius, !.blurAt = Len(im.drawn),
               !.late = @ + (IF im.composited > 0 THEN 1 ELSE 0)]

\* Image.alpha_composite(dst, src) raises ValueError unless both images are
\* RGBA and of the same size.
CompositeOk(dst, src) ==
    dst.mode = "RGBA" /\ src.mode = "RGBA" /\ dst.size = src.size

alpha_composite(dst, name, src) ==
    [dst EXCEPT !.stack = Append(@, [layer |-> name, drawn |-> src.drawn,
                                     blur |-> src.blur])]

\* img.convert("RGB")
convert(im, mode) == [im EXCEPT !.mode = mode]

\* A drawing call on the ImageDraw of a layer.
DrawOn(im, what) ==
    [im EXCEPT !.drawn = Append(@, what),
               !.late = @ + (IF im.composited > 0 THEN 1 ELSE 0)]

----------------------------------------------------------------------------
(* get_font(size, bold), nested in generate().                             *)

SFProBold == "/System/Library/Fonts/SFPro-Bold.otf"
SFProRegular == "/System/Library/Fonts/SFPro-Regular.otf"
ArialBold == "/System/Library/Fonts/Supplemental/Arial Bold.ttf"
Arial == "/System/Library/Fonts/Supplemental/Arial.ttf"
Helvetica == "/System/Library/Fonts/Helvetica.ttc"
FontFiles == {SFProBold, SFProRegular, ArialBold, Arial, Helvetica}
DefaultFont == "load_default"

\* A font file is missing, present but not loadable, or loadable.
FileStates == {"missing", "unloadable", "ok"}

NoFont == [path |-> "", size |-> 0, raised |-> None]

paths(bold) ==
    <<IF bold THEN SFProBold ELSE SFProRegular,
      IF bold THEN ArialBold ELSE Arial,
      Helvetica>>

os_path_exists(files, p) == files[p] # "missing"

\* ImageFont.truetype(p, size): the font, or OSError for a file it cannot load.
truetype(files, p, size) ==
    IF files[p] = "ok"
    THEN [path |-> p, size |-> size, raised |-> None]
    ELSE [path |-> p, size |-> size, raised |-> "OSError: cannot open resource"]

\* ImageFont.load_default(size=size)
load_default(size) == [path |-> DefaultFont, size |-> size, raised |-> None]

\* except Exception: every exception truetype raises is caught.
ExceptNothing(exc) == FALSE

ExceptException(exc) == TRUE

\* for p in paths: from the k-th candidate on.
RECURSIVE Probe(_, _, _, _)
Probe(files, ps, k, size) ==
    IF k > Len(ps)
    THEN load_default(size)
    ELSE IF os_path_exists(files, ps[k])
         THEN LET f == truetype(files, ps[k], size)
              IN IF f.raised = None
                 THEN f
                 ELSE IF ExceptException(f.raised)
                      THEN Probe(files, ps, k + 1, size)
                      ELSE f
         ELSE Probe(files, ps, k + 1, size)

get_font(files, size, bold) == Probe(files, paths(bold), 1, size)

----------------------------------------------------------------------------
(* The statements of generate(), in program order.                         *)

Stmt(line, op, target) ==
    [line |-> line, op |-> op, target |-> target, what |-> "", font |-> "",
     num |-> 0, bold |-> FALSE, fill |-> <<0, 0, 0, 0>>]
NewStmt(line, target, fill) == [Stmt(line, "new", target) EXCEPT !.fill = fill]
DrawStmt(line, target, what, font) ==
    [Stmt(line, "draw", target) EXCEPT !.what = what, !.font = font]
FilterStmt(line, target, radius) == [Stmt(line, "filter", target) EXCEPT !.num = radius]
CompositeStmt(line, target) == Stmt(line, "composite", target)
FontStmt(line, target, size, bold) ==
    [Stmt(line, "get_font", target) EXCEPT !.num = size, !.bold = bold]
MeasureStmt(line, what, font) ==
    [Stmt(line, "measure", "text_layer") EXCEPT !.what = what, !.font = font]

generate_body ==
    << NewStmt(32, "img", <<BG[1], BG[2], BG[3], 255>>),
       NewStmt(33, "overlay", <<0, 0, 0, 0>>),
       DrawStmt(37, "overlay", "orb1", ""),
       DrawStmt(38, "overlay", "orb2", ""),
       DrawStmt(39, "overlay", "orb3", ""),
       FilterStmt(42, "overlay", 60),
       CompositeStmt(43, "overlay"),
       NewStmt(46, "grid", <<0, 0, 0, 0>>),
       DrawStmt(48, "grid", "vlines", ""),
       DrawStmt(50, "grid", "hlines", ""),
       CompositeStmt(52, "grid"),
       NewStmt(55, "particles", <<0, 0, 0, 0>>),
       Stmt(58, "seed", ""),
       DrawStmt(59, "particles", "dots", ""),
       CompositeStmt(66, "particles"),
       NewStmt(69, "border", <<0, 0, 0, 0>>),
       DrawStmt(71, "border", "strips", ""),
       CompositeStmt(76, "border"),
       NewStmt(79, "text_layer", <<0, 0, 0, 0>>),
       FontStmt(97, "font_name", 72, TRUE),
       FontStmt(98, "font_title", 28, FALSE),
       FontStmt(99, "font_tag", 20, FALSE),
       NewStmt(102, "mono_layer", <<0, 0, 0, 0>>),
       FontStmt(104, "font_arg", 36, TRUE),
       DrawStmt(104, "mono_layer", "AY", "font_arg"),
       CompositeStmt(105, "mono_layer"),
       MeasureStmt(109, "name", "font_name"),
       NewStmt(115, "glow", <<0, 0, 0, 0>>),
       DrawStmt(117, "glow", "name_glow", "font_name"),
       FilterStmt(118, "glow", 15),
       CompositeStmt(119, "glow"),
       DrawStmt(122, "text_layer", "name", "font_name"),
       MeasureStmt(126, "subtitle", "font_title"),
       DrawStmt(130, "text_layer", "subtitle", "font_title"),
       DrawStmt(136, "text_layer", "line", ""),
       MeasureStmt(151, "tags", "font_tag"),
       DrawStmt(162, "text_layer", "pills", "font_tag"),
       MeasureStmt(180, "url", "font_tag"),
       DrawStmt(182, "text_layer", "url", "font_tag"),
       CompositeStmt(184, "text_layer"),
       Stmt(187, "convert", "img"),
       Stmt(188, "makedirs", ""),
       Stmt(189, "save", "final"),
       Stmt(190, "print", "") >>

\* The place in `body' of the statement of the given kind and target.
IndexOf(body, op, target, what) ==
    CHOOSE k \in 1..Len(body) :
        body[k].op = op /\ body[k].target = target /\ body[k].what = what

Swapped(body, a, b) ==
    [k \in 1..Len(body) |-> IF k = a THEN body[b] ELSE IF k = b THEN body[a] ELSE body[k]]

\* The statement at place a moved to just after the statement at place b > a.
MovedAfter(body, a, b) ==
    [k \in 1..Len(body) |->
        IF k < a \/ k > b THEN body[k] ELSE IF k = b THEN body[a] ELSE body[k + 1]]

\* generate() with the save placed before the composite of the text layer.
ProgramSaveEarly ==
    MovedAfter(generate_body,
               IndexOf(generate_body, "composite", "text_layer", ""),
               IndexOf(generate_body, "save", "final", ""))

\* generate() with the composites of the name glow and of the text layer exchanged.
ProgramCompositesSwapped ==
    Swapped(generate_body,
            IndexOf(generate_body, "composite", "glow", ""),
            IndexOf(generate_body, "composite", "text_layer", ""))

\* generate() with the url drawn after the text layer was composited.
ProgramLateDraw ==
    Swapped(generate_body,
            IndexOf(generate_body, "draw", "text_layer", "url"),
            IndexOf(generate_body, "composite", "text_layer", ""))

Program == generate_body

Cur == Program[pc]
Running == error = None /\ pc <= Len(Program)
Returned == error = None /\ pc > Len(Program)
At(op) == Running /\ fp = "closed" /\ Cur.op = op

MainParked ==
    /\ pc = 0 /\ img = NoImage /\ layers = [l \in LayerNames |-> NoImage]
    /\ fonts = [v \in FontVars |-> NoFont] /\ final = NoImage /\ error = None
    /\ printed = FALSE /\ seeded = FALSE
    /\ fs = [p \in FontFiles |-> "missing"] /\ dirExists = FALSE /\ file = "absent"
    /\ fp = "closed" /\ created = FALSE /\ saved = NoImage
    /\ runs = 0 /\ fileAtStart = "absent" /\ touched = FALSE

\* A first run on a host with any font files, before public/og-image.png exists.
InitMain ==
    /\ pc = 1 /\ img = NoImage /\ layers = [l \in LayerNames |-> NoImage]
    /\ fonts = [v \in FontVars |-> NoFont] /\ final = NoImage /\ error = None
    /\ printed = FALSE /\ seeded = FALSE
    /\ fs \in [FontFiles -> FileStates] /\ dirExists = FALSE /\ file = "absent"
    /\ fp = "closed" /\ created = FALSE /\ saved = NoImage
    /\ runs = 1 /\ fileAtStart = "absent" /\ touched = FALSE

hostVars == <<fs, dirExists, file, fp, created, saved, runs, fileAtStart, touched>>

\* Image.new("RGBA", (W, H), fill)
New ==
    /\ At("new")
    /\ IF Cur.target = "img"
       THEN /\ img' = Image_new("RGBA", <<W, H>>, Cur.fill)
            /\ UNCHANGED layers
       ELSE /\ layers' = [layers EXCEPT ![Cur.target] = Image_new("RGBA", <<W, H>>, Cur.fill)]
            /\ UNCHANGED img
    /\ pc' = pc + 1
    /\ UNCHANGED <<fonts, final, error, printed, seeded, hostVars>>
    /\ UNCHANGED restOfMain

\* A drawing call (or a loop of them) on the ImageDraw of a layer.
Draw ==
    /\ At("draw")
    /\ layers[Cur.target].alloc
    /\ Cur.font # "" => fonts[Cur.font] # NoFont
    /\ layers' = [layers EXCEPT ![Cur.target] = DrawOn(@, Cur.what)]
    /\ pc' = pc + 1
    /\ UNCHANGED <<img, fonts, final, error, printed, seeded, hostVars>>
    /\ UNCHANGED restOfMain

\* layer = layer.filter(ImageFilter.GaussianBlur(radius))
Filter ==
    /\ At("filter")
    /\ layers[Cur.target].alloc
    /\ layers' = [layers EXCEPT ![Cur.target] = GaussianBlur(@, Cur.num)]
    /\ pc' = pc + 1
    /\ UNCHANGED <<img, fonts, final, error, printed, seeded, hostVars>>
    /\ UNCHANGED restOfMain

\* img = Image.alpha_composite(img, layer)
Composite ==
    /\ At("composite")
    /\ img.alloc /\ layers[Cur.target].alloc
    /\ IF CompositeOk(img, layers[Cur.target])
       THEN /\ img' = alpha_composite(img, Cur.target, layers[Cur.target])
            /\ layers' = [layers EXCEPT ![Cur.target].composited = @ + 1]
            /\ pc' = pc + 1
            /\ UNCHANGED error
       ELSE /\ error' = "ValueError: images do not match"
            /\ UNCHANGED <<img, layers, pc>>
    /\ UNCHANGED <<fonts, final, printed, seeded, hostVars>>
    /\ UNCHANGED restOfMain

\* font = get_font(size, bold): an exception get_font lets through ends the run.
GetFont ==
    /\ At("get_font")
    /\ LET f == get_font(fs, Cur.num, Cur.bold)
       IN IF f.raised = None
          THEN /\ fonts' = [fonts EXCEPT ![Cur.target] = f]
               /\ pc' = pc + 1
               /\ UNCHANGED error
          ELSE /\ error' = f.raised
               /\ UNCHANGED <<fonts, pc>>
    /\ UNCHANGED <<img, layers, final, printed, seeded, hostVars>>
    /\ UNCHANGED restOfMain

\* t_draw.textbbox((0, 0), text, font): measures, draws nothing.
Measure ==
    /\ At("measure")
    /\ layers[Cur.target].alloc
    /\ fonts[Cur.font] # NoFont
    /\ pc' = pc + 1
    /\ UNCHANGED <<img, layers, fonts, final, error, printed, seeded, hostVars>>
    /\ UNCHANGED restOfMain

\* random.seed(42)
Seed ==
    /\ At("seed")
    /\ seeded' = TRUE
    /\ pc' = pc + 1
    /\ UNCHANGED <<img, layers, fonts, final, error, printed, hostVars>>
    /\ UNCHANGED restOfMain

\* final = img.convert("RGB")
Convert ==
    /\ At("convert")
    /\ img.alloc
    /\ final' = convert(img, "RGB")
    /\ pc' = pc + 1
    /\ UNCHANGED <<img, layers, fonts, error, printed, seeded, hostVars>>
    /\ UNCHANGED restOfMain

\* os.makedirs(os.path.dirname(OUT), exist_ok=True)
MakeDirs ==
    /\ At("makedirs")
    /\ dirExists' = TRUE
    /\ pc' = pc + 1
    /\ UNCHANGED <<img, layers, fonts, final, error, printed, seeded,
                   fs, file, fp, created, saved, runs, fileAtStart, touched>>
    /\ UNCHANGED restOfMain

\* final.save(OUT, "PNG", optimize=True), first half: Image.save opens the
\* path with mode "w+b", which creates the file or empties the one there.
SaveOpen ==
    /\ At("save")
    /\ final.alloc /\ dirExists
    /\ created' = (file = "absent")
    /\ file' = "partial"
    /\ fp' = "open"
    /\ saved' = final
    /\ touched' = TRUE
    /\ UNCHANGED <<pc, img, layers, fonts, final, error, printed, seeded,
                   fs, dirExists, runs, fileAtStart>>
    /\ UNCHANGED restOfMain

\* Second half: the encoder writes the whole file, which is then closed.
SaveWrite ==
    /\ Running /\ fp = "open"
    /\ file' = "complete"
    /\ fp' = "closed"
    /\ pc' = pc + 1
    /\ UNCHANGED <<img, layers, fonts, final, error, printed, seeded,
                   fs, dirExists, created, saved, runs, fileAtStart, touched>>
    /\ UNCHANGED restOfMain

\* The encoder or the disk fails during the write: Image.save closes the file,
\* removes it if this call created it, and re-raises.
SaveFail ==
    /\ Running /\ fp = "open"
    /\ file' = IF created THEN "absent" ELSE "partial"
    /\ fp' = "closed"
    /\ error' = "OSError: write failed"
    /\ UNCHANGED <<pc, img, layers, fonts, final, printed, seeded,
                   fs, dirExists, created, saved, runs, fileAtStart, touched>>
    /\ UNCHANGED restOfMain

\* print(...)
PrintLine ==
    /\ At("print")
    /\ printed' = TRUE
    /\ pc' = pc + 1
    /\ UNCHANGED <<img, layers, fonts, final, error, seeded, hostVars>>
    /\ UNCHANGED restOfMain

\* Any statement may raise (MemoryError in an allocation, OSError in
\* makedirs or in opening the file, ...): nothing in generate() catches it.
Raise ==
    /\ Running /\ fp = "closed"
    /\ error' = "Exception"
    /\ UNCHANGED <<pc, img, layers, fonts, final, printed, seeded, hostVars>>
    /\ UNCHANGED restOfMain

\* The script is run again on the same host.
Rerun ==
    /\ ~Running
    /\ runs < MaxRuns
    /\ pc' = 1 /\ img' = NoImage /\ layers' = [l \in LayerNames |-> NoImage]
    /\ fonts' = [v \in FontVars |-> NoFont] /\ final' = NoImage /\ error' = None
    /\ printed' = FALSE /\ seeded' = FALSE
    /\ created' = FALSE /\ saved' = NoImage
    /\ runs' = runs + 1 /\ fileAtStart' = file /\ touched' = FALSE
    /\ UNCHANGED <<fs, dirExists, file, fp>>
    /\ UNCHANGED restOfMain

----------------------------------------------------------------------------
(* The specifications.                                                     *)

Init == InitMain /\ LerpParked /\ GlowParked /\ PartParked /\ BorderParked /\ PillParked
Next ==
    \/ New \/ Draw \/ Filter \/ Composite \/ GetFont \/ Measure \/ Seed
    \/ Convert \/ MakeDirs \/ SaveOpen \/ SaveWrite \/ SaveFail \/ PrintLine
    \/ Raise \/ Rerun
Spec == Init /\ [][Next]_vars

InitL == MainParked /\ InitLerp /\ GlowParked /\ PartParked /\ BorderParked /\ PillParked
NextLerp == LerpCall
SpecLerp == InitL /\ [][NextLerp]_vars

InitG == MainParked /\ LerpParked /\ InitGlow /\ PartParked /\ BorderParked /\ PillParked
NextGlow == GlowStep \/ GlowReturn
SpecGlow == InitG /\ [][NextGlow]_vars

InitP == MainParked /\ LerpParked /\ GlowParked /\ InitParticles /\ BorderParked /\ PillParked
NextParticles == PartSeed \/ PartDraw \/ PartReturn \/ PartRestart
SpecParticles == InitP /\ [][NextParticles]_vars

InitB == MainParked /\ LerpParked /\ GlowParked /\ PartParked /\ InitBorder /\ PillParked
NextBorder == BorderStep \/ BorderReturn
SpecBorder == InitB /\ [][NextBorder]_vars

InitT == MainParked /\ LerpParked /\ GlowParked /\ PartParked /\ BorderParked /\ InitPills
NextPills == PillMeasure \/ PillCentre \/ PillDraw \/ PillReturn
SpecPills == InitT /\ [][NextPills]_vars

----------------------------------------------------------------------------
(* C4: lerp_color(A, B, 0) is A, lerp_color(A, B, 1) is B, and for t in    *)
(* [0, 1] every channel of the result lies between the channels of A and B *)
(* and moves monotonically from A's towards B's as t grows.                *)
C4_LerpEndpointsMonotone ==
    LET c1 == lerpArgs.c1
        c2 == lerpArgs.c2
    IN /\ \A j \in 1..Len(lerpCalls) :
            /\ lerpCalls[j].n = 0 => lerpCalls[j].out = c1
            /\ lerpCalls[j].n = TDen => lerpCalls[j].out = c2
            /\ \A k \in 1..3 :
                  /\ Min2(c1[k], c2[k]) <= lerpCalls[j].out[k]
                  /\ lerpCalls[j].out[k] <= Max2(c1[k], c2[k])
       /\ \A j \in 1..Len(lerpCalls), m \in 1..Len(lerpCalls) :
            lerpCalls[j].n < lerpCalls[m].n =>
                \A k \in 1..3 :
                    IF c1[k] <= c2[k]
                    THEN lerpCalls[j].out[k] <= lerpCalls[m].out[k]
                    ELSE lerpCalls[j].out[k] >= lerpCalls[m].out[k]

\* PURPLE to CYAN at t = 1/2 then t = 1: an inner point and an endpoint.
C4_Witness ==
    /\ lerpArgs = [c1 |-> PURPLE, c2 |-> CYAN]
    /\ Len(lerpCalls) = 2
    /\ 2 * lerpCalls[1].n = TDen
    /\ lerpCalls[2].n = TDen
    /\ lerpCalls[2].out = CYAN
    /\ lerpCalls[1].out # PURPLE /\ lerpCalls[1].out # CYAN

(* C8: draw_gradient_circle draws its circles by strictly decreasing       *)
(* radius from r towards zero; the circle of radius i has alpha            *)
(* trunc(alpha_max * (1 - i/r)^2), which is 0 for the outermost circle,    *)
(* never decreases as the radius shrinks and lies in 0..alpha_max; the     *)
(* loop ends and never divides by zero, for r = 0 too.                     *)
C8_GlowAlphaFalloff ==
    LET r == glowArgs.r
        n == Len(glowEllipses)
        alpha(j) == glowEllipses[j].fill[4]
    IN /\ glowError = None
       /\ n <= (r + 1) \div 2
       /\ glowPc = "done" => n = (r + 1) \div 2
       /\ \A j \in 1..n :
            /\ glowEllipses[j].radius = r - 2 * (j - 1)
            /\ glowEllipses[j].radius >= 1
            /\ alpha(j) >= 0 /\ alpha(j) <= glowArgs.alpha_max
            /\ alpha(j) * r * r <= glowArgs.alpha_max * (2 * (j - 1)) * (2 * (j - 1))
            /\ glowArgs.alpha_max * (2 * (j - 1)) * (2 * (j - 1)) <= (alpha(j) + 1) * r * r
            /\ j = 1 => alpha(j) = 0
            /\ j > 1 => alpha(j - 1) <= alpha(j)

\* The first orb of generate() drawn to the end: 175 circles, the last of radius 2.
C8_Witness ==
    /\ glowPc = "done"
    /\ glowArgs.r = 350
    /\ Len(glowEllipses) = 175
    /\ glowEllipses[175].radius = 2
    /\ glowEllipses[175].fill[4] > glowEllipses[1].fill[4]

----------------------------------------------------------------------------
(* Claims about generate() as a whole, under Spec.                         *)

CompositeOrder ==
    <<"overlay", "grid", "particles", "border", "mono_layer", "glow", "text_layer">>

StackNames(im) == [k \in 1..Len(im.stack) |-> im.stack[k].layer]

FullyComposed(im) == im.alloc /\ im.mode = "RGB" /\ StackNames(im) = CompositeOrder

(* C1, as stated: the file is written only after the image is fully        *)
(* composed in memory, so a run that fails at any step leaves no corrupt   *)
(* or partial file at the output path.                                     *)
C1_FailedRunLeavesNoPartialFile ==
    error # None => file # "partial"

(* C1, amended: the output path is opened only after every layer has been  *)
(* composited and the accumulator flattened to RGB, and the image written  *)
(* is that flattened image; a run that fails before the file is opened     *)
(* leaves the output path as it was before the run.                        *)
C1_WriteOnlyAfterComposed ==
    /\ touched => FullyComposed(final) /\ saved = final
    /\ ~touched => file = fileAtStart
    /\ (error # None /\ ~touched /\ fileAtStart = "absent") => file = "absent"

\* A run that failed after the flattening and before the file was opened, on
\* a host that had no output file.
C1_Witness ==
    /\ error # None
    /\ final.alloc
    /\ ~touched
    /\ file = "absent"

(* C2: get_font probes its candidate paths in list order and returns the   *)
(* font of the first path that exists and loads; missing and unloadable    *)
(* paths are skipped; with no candidate left it returns the built-in       *)
(* default font at the requested size; no font-load failure reaches the    *)
(* caller of get_font or of generate().                                    *)
C2_FontFallback ==
    /\ error # "OSError: cannot open resource"
    /\ \A k \in 1..Len(generate_body) :
         LET st == generate_body[k]
             f == fonts[st.target]
             ps == paths(st.bold)
         IN (st.op = "get_font" /\ (pc > k \/ (pc = k /\ f # NoFont))) =>
               /\ f # NoFont
               /\ f.raised = None
               /\ f.size = st.num
               /\ \/ /\ f.path = DefaultFont
                     /\ \A j \in 1..3 : fs[ps[j]] # "ok"
                  \/ \E j \in 1..3 :
                        /\ f.path = ps[j]
                        /\ fs[ps[j]] = "ok"
                        /\ \A m \in 1..(j - 1) : fs[ps[m]] # "ok"

\* The first bold candidate does not load, the second is missing, the third is
\* taken; no regular candidate resolves and the default font is used.
C2_Witness ==
    /\ Returned
    /\ fs[SFProBold] = "unloadable" /\ fs[ArialBold] = "missing"
    /\ fs[SFProRegular] = "missing" /\ fs[Arial] = "unloadable"
    /\ fs[Helvetica] = "ok"
    /\ fonts["font_name"].path = Helvetica
    /\ fonts["font_tag"].path = Helvetica

(* C3: the layers are composited in the order background glow, grid,       *)
(* particles, border, monogram, name glow, text (name, subtitle, line,     *)
(* pills, url), and only then is the accumulator flattened; no composite   *)
(* is skipped, repeated or reordered.                                      *)
C3_CompositeOrder ==
    /\ Len(img.stack) <= Len(CompositeOrder)
    /\ StackNames(img) = SubSeq(CompositeOrder, 1, Len(img.stack))
    /\ final.alloc => StackNames(final) = CompositeOrder /\ final.stack = img.stack
    /\ Returned => final.alloc

C3_Witness ==
    /\ Returned
    /\ StackNames(img) = CompositeOrder
    /\ final.alloc

(* C7: the accumulator and every layer are 1200 x 630 at every point of    *)
(* generate(), after a blur too, and the image handed to the file write is *)
(* 1200 x 630 in RGB mode (no alpha channel).                              *)
C7_Dimensions ==
    /\ \A l \in LayerNames : layers[l].alloc => layers[l].size = <<1200, 630>>
    /\ img.alloc => img.size = <<1200, 630>>
    /\ final.alloc => final.size = <<1200, 630>> /\ final.mode = "RGB"
    /\ touched => saved.alloc /\ saved.size = <<1200, 630>> /\ saved.mode = "RGB"
    /\ file = "complete" /\ touched => saved = final

C7_Witness ==
    /\ file = "complete"
    /\ touched
    /\ saved.size = <<W, H>>
    /\ layers["overlay"].blur = 60
    /\ layers["glow"].blur = 15

\* What each layer holds when it is complete, and its blur radius.
LayerContent(l) ==
    CASE l = "overlay" -> <<"orb1", "orb2", "orb3">>
      [] l = "grid" -> <<"vlines", "hlines">>
      [] l = "particles" -> <<"dots">>
      [] l = "border" -> <<"strips">>
      [] l = "mono_layer" -> <<"AY">>
      [] l = "glow" -> <<"name_glow">>
      [] l = "text_layer" -> <<"name", "subtitle", "line", "pills", "url">>

LayerBlur(l) == IF l = "overlay" THEN 60 ELSE IF l = "glow" THEN 15 ELSE 0

(* C9: every layer starts fully transparent, is composited exactly once,   *)
(* and has received all of its drawing and its blur before that composite: *)
(* nothing is drawn into a layer after it was composited, and the three    *)
(* background orbs are in the shared overlay before it is blurred.         *)
C9_LayerLifecycle ==
    /\ \A l \in LayerNames :
         layers[l].alloc =>
            /\ layers[l].fill = <<0, 0, 0, 0>>
            /\ layers[l].composited <= 1
            /\ layers[l].late = 0
            /\ layers[l].blur > 0 => /\ layers[l].blurAt = Len(LayerContent(l))
                                     /\ layers[l].drawn = LayerContent(l)
            /\ layers[l].composited = 1 => /\ layers[l].drawn = LayerContent(l)
                                           /\ layers[l].blur = LayerBlur(l)
    /\ \A k \in 1..Len(img.stack) :
         /\ img.stack[k].drawn = LayerContent(img.stack[k].layer)
         /\ img.stack[k].blur = LayerBlur(img.stack[k].layer)
    /\ Returned => \A l \in LayerNames : layers[l].alloc /\ layers[l].composited = 1

C9_Witness ==
    /\ Returned
    /\ \A l \in LayerNames : layers[l].composited = 1
    /\ layers["overlay"].blurAt = 3

----------------------------------------------------------------------------
(* C5: the pill row is centred: with total_width the sum of the padded     *)
(* pill widths plus one 16 px gap between neighbours, the first pill       *)
(* starts at (1200 - total_width) / 2 (rounded down to a whole pixel),     *)
(* every next pill starts one gap after the right edge of the one before,  *)
(* and the last pill ends at start + total_width.                          *)
RECURSIVE SumWidths(_, _)
SumWidths(ps, k) == IF k = 0 THEN 0 ELSE ps[k].pw + SumWidths(ps, k - 1)

----------------------------------------------------------------------------
(* C6: the particle layer is deterministic: every run draws exactly 40     *)
(* particles, and the positions, sizes, alphas and colours are those of    *)
(* the run before, whatever state the generator was in before the run.     *)
C6_ParticlesDeterministic ==
    /\ Len(partDots) = partI
    /\ partPc = "done" => Len(partDots) = 40
    /\ partRuns > 1 =>
         /\ Len(partPrev) = 40
         /\ \A k \in 1..Len(partDots) : partDots[k] = partPrev[k]

\* A second run that started from another generator state and ended.
C6_Witness ==
    /\ partRuns = 2
    /\ partPc = "done"
    /\ partDots = partPrev
    /\ Len(partDots) = 40

----------------------------------------------------------------------------
(* C10: in the border layer every column x in 0..1199 gets the same colour *)
(* lerp_color(PURPLE, CYAN, x/1200) at the top and at the bottom, the two  *)
(* strips cover the same number of pixel rows (the top one from row 0, the *)
(* bottom one ending on row 629), and every painted row lies inside the    *)
(* canvas rows 0..629.                                                     *)
C10_BorderStripsSymmetric ==
    borderCol.x >= 0 =>
        /\ borderCol.topFill = borderCol.bottomFill
        /\ 0 \in borderCol.top
        /\ 629 \in borderCol.bottom
        /\ borderCol.top \subseteq 0..629
        /\ borderCol.bottom \subseteq 0..629
        /\ Cardinality(borderCol.top) = Cardinality(borderCol.bottom)

====
